---------------------------- MODULE Spec2Model ----------------------------
(***************************************************************************)
(* Model of compressPics.py, compressVids.py and the check command of      *)
(* deadman.py.                                                             *)
(*                                                                         *)
(* Spec        one per-file task (compress_image or compress_video) with   *)
(*             the external encoder (ffmpeg / Pillow) and the filesystem   *)
(*             faults of the error taxonomy (temp-write failure, rename    *)
(*             failure, failure to remove the original) as environment.    *)
(* SpecDir     the same task in a directory that already holds other       *)
(*             files at the paths the task derives.                        *)
(* SpecBatch   compress_directory: discovery and the dispatch of the       *)
(*             per-file tasks to the workers.                              *)
(* SpecDeadman the check command of deadman.py as run by cron and by hand. *)
(*                                                                         *)
(* Sizes are integers.  Video sizes are in whole MB; image sizes are in     *)
(* half MB (so that MAX_SIZE_MB = 1.5 is the integer 3).  Ratios are kept as *)
(* numerator / denominator and every comparison of the code is            *)
(* cross-multiplied, so no rounding is introduced.                         *)
(***************************************************************************)
EXTENDS Integers, Sequences, FiniteSets, TLC

VARIABLES
    kind,       \* "image" | "video": which script runs the task
    path,       \* the task's source path (argument of compress_image / compress_video)
    origSize,   \* size of the source file at the start of the task
    duration,   \* ffprobe's duration in seconds; 0 stands for None / invalid
    img,        \* the decoded image and its encoder behaviour (NoImg for video)
    fs,         \* the directory: path -> file
    pc,         \* position of the task in its function
    outcome,    \* how the task ended ("" while running)
    proc,       \* the ffmpeg process: "none" | "running" | "exited" | "killed"
    rc,         \* exit code of the ffmpeg process (NoRc while it has none)
    sigint,     \* SIGINT has been sent to the process
    lastTime,   \* last_time_str["val"]: <<hh, mm, ss>> or NoTime
    elapsed,    \* wall-clock seconds since `start`, as last read by the loop
    sampled,    \* the `sampled` flag of the monitor loop
    sample,     \* what the sampling point measured (NoSample before it)
    finalSize,  \* final_size_mb measured at completion (NoSize before)
    result,     \* bytes returned by compress_to_target_size (NoResult before)
    \* compress_directory
    files,      \* all_images / all_videos: the list built by os.walk (<<>> before)
    next,       \* index in files of the next item to hand to a worker
    worker,     \* worker -> the index it is processing, 0 when idle
    raised,     \* worker -> an exception is propagating inside its task
    results,    \* index -> the outcome of its task ("" before it ends)
    handed,     \* index -> how many times the item was handed to a worker
    batch_pc,   \* "walk" | "run" | "done" | "aborted" ("off" outside a batch)
    \* deadman.py
    now,            \* time.time() in seconds since the setup
    last_reset,     \* content of the RESET_FILE
    days,           \* config["days"]
    trigger_count,  \* config["trigger_count"] as stored in config.json
    base_dir,       \* the directory ~/.deadman/<id> and its config exist
    cron,           \* the crontab holds the job of the switch
    sent,           \* number of e-mails sent
    check_pc,       \* check process -> its position
    local_count     \* check process -> the trigger_count it read

taskVars == <<kind, path, origSize, duration, img, fs, pc, outcome, proc, rc, sigint,
              lastTime, elapsed, sampled, sample, finalSize, result>>
batchVars == <<files, next, worker, raised, results, handed, batch_pc>>
deadmanVars == <<now, last_reset, days, trigger_count, base_dir, cron, sent,
                 check_pc, local_count>>
vars == <<taskVars, batchVars, deadmanVars>>

Min(a, b) == IF a <= b THEN a ELSE b
Max(a, b) == IF a >= b THEN a ELSE b

-----------------------------------------------------------------------------
(* Settings of compressVids.py *)

VID_MIN_SIZE_MB == 5
\* MIN_COMPRESSION_RATIO = 0.5 = RATIO_NUM / RATIO_DEN
RATIO_NUM == 1
RATIO_DEN == 2
SAMPLE_SECONDS == 20
VID_SUPPORTED_FORMATS == {"mp4", "mkv", "mov", "avi", "flv", "wmv"}

(* Bounds of the video model *)
MaxVidSize == 7        \* source sizes 4 .. MaxVidSize MB
MaxOut == 4            \* the encoder writes at most MaxOut MB
MaxDuration == 60      \* durations 0, MaxDuration - 20, MaxDuration
ClockStep == 10        \* the wall clock is read in multiples of ClockStep
MaxElapsed == 30       \* the clock stops advancing here

VidSizes == 4 .. MaxVidSize
Durations == {0, MaxDuration - 20, MaxDuration}

NoRc == -1
NoSize == -1
NoTime == <<>>
NoSample == [taken |-> FALSE, bytes |-> 0, secs |-> 0]
TimeStamps == {<<0, 0, 0>>, <<0, 0, 10>>, <<0, 0, 30>>, <<0, 1, 0>>}

-----------------------------------------------------------------------------
(* The directory *)

NoFile == [tag |-> "none", size |-> 0]
File(t, s) == [tag |-> t, size |-> s]
Exists(f, p) == f[p].tag # "none"

\* prepare_paths: splitext drops the last extension of the file name
BaseName(p) == SubSeq(p, 1, Len(p) - 1)
\* the encoder output written to the source path
TempPath_source(p) == p

TempPath(p) == BaseName(p) \o <<"tmp", "mkv">>
FinalPath(p) == BaseName(p) \o <<"mkv">>

\* the output written in place
ImgTempPath_inPlace(p) == p

\* compress_image: temp_path = path + ".tmp"
ImgTempPath(p) == p \o <<"tmp">>

VideoPaths == {<<"a", e>> : e \in VID_SUPPORTED_FORMATS}
ImagePaths == {<<"b", "jpg">>}
\* the paths a task on p can name: its source, its temporary file and its
\* destination
TaskPaths(p) ==
    IF p \in VideoPaths THEN {p, TempPath(p), FinalPath(p)} ELSE {p, ImgTempPath(p)}

InitFs(p, s) == [q \in TaskPaths(p) |-> IF q = p THEN File("orig", s) ELSE NoFile]

\* os.remove(p) of an existing file; os.replace(src, dst)
Remove(f, p) == [f EXCEPT ![p] = NoFile]
Replace(f, src, dst) == [[f EXCEPT ![dst] = f[src]] EXCEPT ![src] = NoFile]
\* "if os.path.exists(temp_path): os.remove(temp_path)"
RemoveIfExists(f, p) == IF Exists(f, p) THEN Remove(f, p) ELSE f

NoImg == [w |-> 0, h |-> 0, qa |-> 0, s1 |-> 0, s2 |-> 0, s3 |-> 0]
NoResult == [size |-> 0, w |-> 0, h |-> 0, q |-> 0, probes |-> 0, found |-> FALSE,
             dims |-> <<>>]

-----------------------------------------------------------------------------
(* compress_video *)

\* hms_to_seconds("HH:MM:SS.xx")
hms_to_seconds(hms) == hms[1] * 3600 + hms[2] * 60 + hms[3]

\* the wall clock used whatever was parsed
EncodedSeconds_wallOnly(parsed, el) == el

\* lines 131-135: the encoded time if one was parsed and is positive, else
\* the wall-clock elapsed time
EncodedSeconds(parsed, el) ==
    LET es == IF parsed # NoTime THEN hms_to_seconds(parsed) ELSE 0
    IN  IF es <= 0 THEN el ELSE es

\* the estimate compared with the source size instead of the threshold
EstimateTooBig_noRatio(bytes, secs, dur, size) ==
    secs > 0 /\ bytes * dur >= size * secs

\* the ratio applied twice to the threshold
EstimateTooBig_ratioTwice(bytes, secs, dur, size) ==
    secs > 0 /\ bytes * dur * RATIO_DEN * RATIO_DEN >= size * RATIO_NUM * RATIO_NUM * secs

\* line 144: est_final_mb >= accept_threshold_mb, where
\* est_final = bytes / secs * duration and threshold = size * ratio
EstimateTooBig(bytes, secs, dur, size) ==
    IF secs > 0
    THEN bytes * dur * RATIO_DEN >= size * RATIO_NUM * secs
    ELSE 0 >= size * RATIO_NUM

\* "<=" in place of "<"
Accept_nonStrict(final, size) == final * RATIO_DEN <= size * RATIO_NUM

\* line 211: final_size_mb < accept_threshold_mb
Accept(final, size) == final * RATIO_DEN < size * RATIO_NUM

\* a size in bytes compared with the floor in MB
IsSmallVideo_bytes(size) == size * 1024 * 1024 < VID_MIN_SIZE_MB

\* line 62: size_mb < MIN_SIZE_MB
IsSmallVideo(size) == size < VID_MIN_SIZE_MB

\* only a death by signal counted as a failure
EncoderFailed_signalOnly(code) == code < 0

\* line 191: rc != 0
EncoderFailed(code) == code # 0

Finish(o) == /\ pc' = "done"
             /\ outcome' = o

\* lines 57-82: probe, skip invalid or small files, start ffmpeg
VidStart ==
    /\ kind = "video" /\ pc = "start"
    /\ IF duration <= 0
       THEN Finish("skipped_invalid") /\ UNCHANGED proc
       ELSE IF IsSmallVideo(origSize)
       THEN Finish("skipped_small") /\ UNCHANGED proc
       ELSE pc' = "loop" /\ proc' = "running" /\ UNCHANGED outcome
    /\ UNCHANGED <<batchVars, deadmanVars, kind, path, origSize, duration, img, fs, rc, sigint, lastTime,
                   elapsed, sampled, sample, finalSize, result>>

\* ffmpeg creates the output file and appends to it
EncWrite ==
    /\ proc = "running"
    /\ \E s \in 0 .. MaxOut :
          /\ Exists(fs, TempPath(path)) => s > fs[TempPath(path)].size
          /\ fs' = [fs EXCEPT ![TempPath(path)] = File("partial", s)]
    /\ UNCHANGED <<batchVars, deadmanVars, kind, path, origSize, duration, img, pc, outcome, proc, rc, sigint,
                   lastTime, elapsed, sampled, sample, finalSize, result>>

\* lines 88-104: the reader thread stores the last time= value ffmpeg printed
stderr_reader ==
    /\ proc = "running"
    /\ \E t \in TimeStamps :
          /\ hms_to_seconds(t) <= duration
          /\ IF lastTime = NoTime THEN TRUE
                                  ELSE hms_to_seconds(t) > hms_to_seconds(lastTime)
          /\ lastTime' = t
    /\ UNCHANGED <<batchVars, deadmanVars, kind, path, origSize, duration, img, fs, pc, outcome, proc, rc,
                   sigint, elapsed, sampled, sample, finalSize, result>>

\* ffmpeg exits by itself: code 0 with the output complete (or with no
\* output at all), code 1 on an encoder error, 255 after SIGINT
EncExit ==
    /\ proc = "running"
    /\ \E c \in (IF sigint THEN {0, 255} ELSE {0, 1}) :
          /\ rc' = c
          /\ fs' = IF c = 0 /\ Exists(fs, TempPath(path))
                   THEN [fs EXCEPT ![TempPath(path)].tag = "new"]
                   ELSE fs
    /\ proc' = "exited"
    /\ UNCHANGED <<batchVars, deadmanVars, kind, path, origSize, duration, img, pc, outcome, sigint, lastTime,
                   elapsed, sampled, sample, finalSize, result>>

\* the sampled flag ignored: a sample at every turn
AfterPoll_sampleAgain(running, smp, el) ==
    IF ~running THEN "finish"
    ELSE IF el >= SAMPLE_SECONDS THEN "sample"
    ELSE "loop"

\* the sampling window ignored: a sample at the first turn
AfterPoll_noWait(running, smp, el) ==
    IF ~running THEN "finish"
    ELSE IF ~smp THEN "sample"
    ELSE "loop"

\* lines 122-125: leave the loop when the process has exited, sample once
\* when SAMPLE_SECONDS have elapsed, else sleep and go round
AfterPoll(running, smp, el) ==
    IF ~running THEN "finish"
    ELSE IF ~smp /\ el >= SAMPLE_SECONDS THEN "sample"
    ELSE "loop"

\* lines 119-125 and 179: one turn of the monitor loop
LoopPoll ==
    /\ pc = "loop"
    /\ \E d \in {0, ClockStep, 2 * ClockStep} :
          /\ elapsed + d <= MaxElapsed
          /\ elapsed' = elapsed + d
    /\ pc' = AfterPoll(proc = "running", sampled, elapsed')
    /\ UNCHANGED <<batchVars, deadmanVars, kind, path, origSize, duration, img, fs, outcome, proc, rc, sigint,
                   lastTime, sampled, sample, finalSize, result>>

\* lines 127-178: the sampling point
Sample ==
    /\ pc = "sample"
    /\ IF Exists(fs, TempPath(path))
       THEN LET bytes == fs[TempPath(path)].size
                secs == EncodedSeconds(lastTime, elapsed)
            IN  /\ sample' = [taken |-> TRUE, bytes |-> bytes, secs |-> secs]
                /\ IF EstimateTooBig(bytes, secs, duration, origSize)
                   THEN pc' = "abort_signal" /\ UNCHANGED sampled
                   ELSE pc' = "loop" /\ sampled' = TRUE
       ELSE /\ sampled' = TRUE
            /\ pc' = "loop"
            /\ UNCHANGED sample
    /\ UNCHANGED <<batchVars, deadmanVars, kind, path, origSize, duration, img, fs, outcome, proc, rc, sigint,
                   lastTime, elapsed, finalSize, result>>

\* line 148: proc.send_signal(signal.SIGINT) (a no-op on a process that exited)
AbortSignal ==
    /\ pc = "abort_signal"
    /\ sigint' = (proc = "running")
    /\ pc' = "abort_wait"
    /\ UNCHANGED <<batchVars, deadmanVars, kind, path, origSize, duration, img, fs, outcome, proc, rc,
                   lastTime, elapsed, sampled, sample, finalSize, result>>

\* the kill sent without looking at the process
GraceExpired_always(p) == TRUE

\* lines 150-152: proc.wait(timeout=5) raises TimeoutExpired when the
\* process is still running at the end of the grace period
GraceExpired(p) == p = "running"

\* lines 150-154: wait for the grace period, then kill
AbortWait ==
    /\ pc = "abort_wait"
    /\ IF GraceExpired(proc)
       THEN proc' = "killed" /\ rc' = -9
       ELSE UNCHANGED <<proc, rc>>
    /\ pc' = "abort_remove"
    /\ UNCHANGED <<batchVars, deadmanVars, kind, path, origSize, duration, img, fs, outcome, sigint,
                   lastTime, elapsed, sampled, sample, finalSize, result>>

\* lines 160-171: remove the partial file and return
AbortRemove ==
    /\ pc = "abort_remove"
    /\ fs' = RemoveIfExists(fs, TempPath(path))
    /\ Finish("aborted")
    /\ UNCHANGED <<batchVars, deadmanVars, kind, path, origSize, duration, img, proc, rc, sigint,
                   lastTime, elapsed, sampled, sample, finalSize, result>>

\* lines 181-225 up to the replacement: wait for the exit, check the exit
\* code and the output, measure it and decide
VidFinish ==
    /\ pc = "finish"
    /\ proc # "running"
    /\ IF EncoderFailed(rc)
       THEN /\ fs' = RemoveIfExists(fs, TempPath(path))
            /\ Finish("failed")
            /\ UNCHANGED finalSize
       ELSE IF ~Exists(fs, TempPath(path))
       THEN /\ Finish("no_output")
            /\ UNCHANGED <<fs, finalSize>>
       ELSE /\ finalSize' = fs[TempPath(path)].size
            /\ IF Accept(finalSize', origSize)
               THEN pc' = "replace" /\ UNCHANGED <<fs, outcome>>
               ELSE fs' = Remove(fs, TempPath(path)) /\ Finish("kept")
    /\ UNCHANGED <<batchVars, deadmanVars, kind, path, origSize, duration, img, proc, rc, sigint,
                   lastTime, elapsed, sampled, sample, result>>

\* line 213: os.replace(temp_path, final_path); when it raises, the handler
\* of lines 227-233 removes the temporary file
VidReplace ==
    /\ pc = "replace"
    /\ \/ /\ fs' = Replace(fs, TempPath(path), FinalPath(path))
          /\ pc' = "remove_original"
          /\ UNCHANGED outcome
       \/ /\ fs' = RemoveIfExists(fs, TempPath(path))
          /\ Finish("error")
    /\ UNCHANGED <<batchVars, deadmanVars, kind, path, origSize, duration, img, proc, rc, sigint,
                   lastTime, elapsed, sampled, sample, finalSize, result>>

\* lines 214-218: os.remove(path), its failure ignored
VidRemoveOriginal ==
    /\ pc = "remove_original"
    /\ \/ fs' = Remove(fs, path)
       \/ UNCHANGED fs
    /\ Finish("replaced")
    /\ UNCHANGED <<batchVars, deadmanVars, kind, path, origSize, duration, img, proc, rc, sigint,
                   lastTime, elapsed, sampled, sample, finalSize, result>>

-----------------------------------------------------------------------------
(* Settings of compressPics.py, sizes in half MB *)

IMG_MAX_SIZE == 3      \* MAX_SIZE_MB = 1.5
IMG_MIN_SIZE == 2      \* MIN_SIZE_MB = 1.0
\* TARGET_RATIO = 0.25 = TARGET_NUM / TARGET_DEN
TARGET_NUM == 1
TARGET_DEN == 4
QUALITY_LOW == 30
QUALITY_HIGH == 95
DEFAULT_QUALITY == 85
\* scale = 0.95 = SCALE_PCT / 100, kept in fixed point with ScaleOne = 1.0
SCALE_PCT == 95
ScaleOne == 1000 * 1000
MIN_DIM == 200
ABS_MIN_DIM == 2

(* Bounds of the image model *)
MaxImgSize == 13       \* source sizes 1, 2, 4, 8, MaxImgSize half MB
MaxEnc == 3            \* full-size encodings take 1 .. MaxEnc half MB
MaxDim == 250          \* image sides up to MaxDim pixels
BumpWidth == 3         \* width of the middle band of the encoder's size curve

ImgSizes == {1, 2, 4, 8, MaxImgSize}
ImgDims == {<<1, MaxDim>>, <<2, 2>>, <<MaxDim - 40, MaxDim>>, <<MaxDim, MaxDim>>}

\* An image: its dimensions and the size the encoder gives it at full
\* dimensions: s1 below quality qa, s2 in the band [qa, qa + BumpWidth), s3
\* above.  The curve need not be monotonic.
Images ==
    {[w |-> d[1], h |-> d[2], qa |-> a, s1 |-> x, s2 |-> y, s3 |-> z] :
        d \in ImgDims, a \in QUALITY_LOW .. QUALITY_HIGH + 1,
        x \in 1 .. MaxEnc, y \in 1 .. MaxEnc, z \in 1 .. MaxEnc}

FullSize(im, q) ==
    IF q < im.qa THEN im.s1
    ELSE IF q < im.qa + BumpWidth THEN im.s2
    ELSE im.s3

\* the size function of the encoder is non-decreasing in the quality
Monotonic(im) ==
    \A q \in QUALITY_LOW .. QUALITY_HIGH - 1 : FullSize(im, q) <= FullSize(im, q + 1)

\* get_size_mb(_save_image_bytes(...)) for the image resized to w x h: the
\* full-size encoding scaled by the area, rounded up
SaveSize(im, q, w, h) ==
    (FullSize(im, q) * w * h + im.w * im.h - 1) \div (im.w * im.h)

\* the ratio of the original size left out of the target
FitsTarget_ceilingOnly(size, orig) == size <= IMG_MAX_SIZE

\* size_mb <= target_mb with target_mb = min(MAX_SIZE_MB, original_size * TARGET_RATIO)
FitsTarget(size, orig) ==
    size * TARGET_DEN <= Min(IMG_MAX_SIZE * TARGET_DEN, orig * TARGET_NUM)

\* best_quality updated at every probe, fitting or not
RECURSIVE BinarySearch_tracksLast(_, _, _, _, _)
BinarySearch_tracksLast(im, orig, low, high, st) ==
    IF low > high THEN st
    ELSE LET q == (low + high) \div 2
             size == SaveSize(im, q, im.w, im.h)
         IN  IF FitsTarget(size, orig)
             THEN BinarySearch_tracksLast(im, orig, q + 1, high,
                      [found |-> TRUE, q |-> q, size |-> size,
                       probes |-> st.probes + 1])
             ELSE BinarySearch_tracksLast(im, orig, low, q - 1,
                      [st EXCEPT !.probes = @ + 1, !.q = q])

\* lines 131-148: the binary search on the quality.  st is (best_bytes,
\* best_quality) with the number of encodes made
RECURSIVE BinarySearch(_, _, _, _, _)
BinarySearch(im, orig, low, high, st) ==
    IF low > high THEN st
    ELSE LET q == (low + high) \div 2
             size == SaveSize(im, q, im.w, im.h)
         IN  IF FitsTarget(size, orig)
             THEN BinarySearch(im, orig, q + 1, high,
                      [found |-> TRUE, q |-> q, size |-> size,
                       probes |-> st.probes + 1])
             ELSE BinarySearch(im, orig, low, q - 1,
                      [st EXCEPT !.probes = @ + 1])

\* the upper bound of the search one too low
QualitySearch_highOffByOne(im, orig) ==
    BinarySearch(im, orig, QUALITY_LOW, QUALITY_HIGH - 1,
                 [found |-> FALSE, q |-> DEFAULT_QUALITY, size |-> 0, probes |-> 0])

\* the search run over 1 .. 255 in place of the quality bounds
QualitySearch_byteRange(im, orig) ==
    BinarySearch(im, orig, 1, 255,
                 [found |-> FALSE, q |-> DEFAULT_QUALITY, size |-> 0, probes |-> 0])

\* the search bounded above by the default quality
QualitySearch_defaultHigh(im, orig) ==
    BinarySearch(im, orig, QUALITY_LOW, DEFAULT_QUALITY,
                 [found |-> FALSE, q |-> DEFAULT_QUALITY, size |-> 0, probes |-> 0])

\* line 131-133 and the loop of lines 137-148
QualitySearch(im, orig) ==
    BinarySearch(im, orig, QUALITY_LOW, QUALITY_HIGH,
                 [found |-> FALSE, q |-> DEFAULT_QUALITY, size |-> 0, probes |-> 0])

\* the size compared with MAX_SIZE_MB instead of target_mb
StopScaling_ceilingOnly(size, orig, new_w, new_h) ==
    size <= IMG_MAX_SIZE \/ new_w < MIN_DIM \/ new_h < MIN_DIM

\* the floor on the dimensions left out
StopScaling_fitsOnly(size, orig, new_w, new_h) == FitsTarget(size, orig)

\* line 165: stop scaling when the result fits or a side is below 200 px
StopScaling(size, orig, new_w, new_h) ==
    FitsTarget(size, orig) \/ new_w < MIN_DIM \/ new_h < MIN_DIM

\* lines 151-170: progressive downscaling at quality q; (cw, ch) are the
\* dimensions of current_img, scale the fixed-point scale factor; dims lists
\* the dimensions of every resized image that was encoded
RECURSIVE Downscale(_, _, _, _, _, _, _)
Downscale(im, orig, scale, cw, ch, q, n) ==
    LET new_w == Max(1, (im.w * scale) \div ScaleOne)
        new_h == Max(1, (im.h * scale) \div ScaleOne)
    IN  IF new_w < ABS_MIN_DIM \/ new_h < ABS_MIN_DIM
        THEN [size |-> SaveSize(im, q, cw, ch), w |-> cw, h |-> ch, q |-> q,
              probes |-> n + 1, found |-> FALSE, dims |-> <<>>]
        ELSE LET size == SaveSize(im, q, new_w, new_h)
             IN  IF StopScaling(size, orig, new_w, new_h)
                 THEN [size |-> size, w |-> new_w, h |-> new_h, q |-> q,
                       probes |-> n + 1, found |-> FALSE,
                       dims |-> <<<<new_w, new_h>>>>]
                 ELSE LET r == Downscale(im, orig, (scale * SCALE_PCT) \div 100,
                                         new_w, new_h, q, n + 1)
                      IN  [r EXCEPT !.dims = <<<<new_w, new_h>>>> \o @]

\* compress_to_target_size: the bytes returned, with the dimensions and the
\* quality they were encoded at
compress_to_target_size(im, orig) ==
    LET st == QualitySearch(im, orig)
    IN  IF st.found
        THEN [size |-> st.size, w |-> im.w, h |-> im.h, q |-> st.q,
              probes |-> st.probes, found |-> TRUE, dims |-> <<>>]
        ELSE Downscale(im, orig, (ScaleOne * SCALE_PCT) \div 100, im.w, im.h,
                       st.q, st.probes)

-----------------------------------------------------------------------------
(* compress_image *)

\* lines 178-181: skip small files
ImgStart ==
    /\ kind = "image" /\ pc = "start"
    /\ IF origSize < IMG_MIN_SIZE
       THEN Finish("skipped_small")
       ELSE pc' = "img_open" /\ UNCHANGED outcome
    /\ UNCHANGED <<batchVars, deadmanVars, kind, path, origSize, duration, img, fs, proc, rc, sigint,
                   lastTime, elapsed, sampled, sample, finalSize, result>>

\* lines 187-206: open and decode the image (which may fail) and compress it
ImgOpen ==
    /\ pc = "img_open"
    /\ \/ /\ Finish("error")
          /\ UNCHANGED <<img, result>>
       \/ \E im \in Images :
             /\ img' = im
             /\ result' = compress_to_target_size(im, origSize)
             /\ pc' = "img_temp_open"
             /\ UNCHANGED outcome
    /\ UNCHANGED <<batchVars, deadmanVars, kind, path, origSize, duration, fs, proc, rc, sigint,
                   lastTime, elapsed, sampled, sample, finalSize>>

\* line 210: open(temp_path, "wb") creates the empty temporary file, or fails
ImgTempOpen ==
    /\ pc = "img_temp_open"
    /\ \/ /\ fs' = [fs EXCEPT ![ImgTempPath(path)] = File("partial", 0)]
          /\ pc' = "img_temp_write"
          /\ UNCHANGED outcome
       \/ /\ Finish("error")
          /\ UNCHANGED fs
    /\ UNCHANGED <<batchVars, deadmanVars, kind, path, origSize, duration, img, proc, rc, sigint,
                   lastTime, elapsed, sampled, sample, finalSize, result>>

\* line 211: f.write(result) and the close of the file; a failed write
\* leaves part of the bytes
ImgTempWrite ==
    /\ pc = "img_temp_write"
    /\ \/ /\ fs' = [fs EXCEPT ![ImgTempPath(path)] = File("new", result.size)]
          /\ pc' = "img_replace"
          /\ UNCHANGED outcome
       \/ \E k \in 0 .. result.size - 1 :
             /\ fs' = [fs EXCEPT ![ImgTempPath(path)] = File("partial", k)]
             /\ Finish("error")
    /\ UNCHANGED <<batchVars, deadmanVars, kind, path, origSize, duration, img, proc, rc, sigint,
                   lastTime, elapsed, sampled, sample, finalSize, result>>

\* line 212: os.replace(temp_path, path), or its failure
ImgReplace ==
    /\ pc = "img_replace"
    /\ \/ /\ fs' = Replace(fs, ImgTempPath(path), path)
          /\ Finish("replaced")
       \/ /\ Finish("error")
          /\ UNCHANGED fs
    /\ UNCHANGED <<batchVars, deadmanVars, kind, path, origSize, duration, img, proc, rc, sigint,
                   lastTime, elapsed, sampled, sample, finalSize, result>>

-----------------------------------------------------------------------------
(* compress_directory of compressPics.py and compressVids.py *)

(* Bounds of the batch model *)
Cpus == 3              \* os.cpu_count(): the default size of the process pool
MaxListing == 4        \* a directory holds at most MaxListing entries

IMG_SUPPORTED_FORMATS == {"jpg", "jpeg", "png", "bmp", "gif", "tiff"}

\* the entries a directory may hold
DirNames(k) ==
    IF k = "video"
    THEN {<<"a", "mp4">>, <<"a", "MOV">>, <<"a", "tmp", "mkv">>, <<"n", "txt">>}
    ELSE {<<"b", "jpg">>, <<"d", "PNG">>, <<"e", "gif">>, <<"b", "jpg", "tmp">>}

\* os.walk lists every entry of the directory once, in some order
Listings(k) ==
    {l \in UNION {[1 .. n -> DirNames(k)] : n \in 0 .. MaxListing} :
        \A i, j \in DOMAIN l : i # j => l[i] # l[j]}

\* str.lower on the extensions that occur
Lower(e) == CASE e = "MOV" -> "mov" [] e = "PNG" -> "png" [] OTHER -> e

\* fname.lower().endswith(SUPPORTED_FORMATS)
IsSupported(k, p) ==
    Lower(p[Len(p)]) \in
        (IF k = "video" THEN VID_SUPPORTED_FORMATS ELSE IMG_SUPPORTED_FORMATS)

\* every worker of the machine used for videos too
PoolSize_allCpus(k) == Cpus

\* compressPics: ProcessPoolExecutor() with its default size; compressVids:
\* the for loop of the main process
PoolSize(k) == IF k = "video" THEN 1 ELSE Cpus

Workers == DOMAIN worker
Busy == {w \in Workers : worker[w] # 0}

\* the temporary path of the task on p
TempOf(k, p) == IF k = "video" THEN TempPath(p) ELSE ImgTempPath(p)

\* the iteration never advancing
NextIndex_stuck(i) == i

\* the iteration over the list: each item is taken once, in order
NextIndex(i) == i + 1

\* what a task can raise inside its try block
Raisable == {"OSError", "ValueError", "CalledProcessError"}

\* "except OSError" in place of "except Exception"
Caught_osErrorOnly(e) == e = "OSError"

\* compressPics line 217, compressVids line 227: except Exception
Caught(e) == e \in Raisable

\* the ways a task returns without raising
NormalOutcomes(k) ==
    IF k = "video"
    THEN {"replaced", "kept", "aborted", "skipped_small", "skipped_invalid",
          "failed", "no_output"}
    ELSE {"replaced", "skipped_small"}

\* os.walk and the filter on the extension
Walk ==
    /\ batch_pc = "walk"
    /\ \E l \in Listings(kind) :
          LET found == SelectSeq(l, LAMBDA p : IsSupported(kind, p))
          IN  /\ files' = found
              /\ results' = [i \in DOMAIN found |-> ""]
              /\ handed' = [i \in DOMAIN found |-> 0]
              /\ batch_pc' = IF found = <<>> THEN "done" ELSE "run"
    /\ UNCHANGED <<next, worker, raised, taskVars, deadmanVars>>

\* executor.map / the for loop hands the next item to a free worker
Dispatch(w) ==
    /\ batch_pc = "run"
    /\ worker[w] = 0
    /\ next <= Len(files)
    /\ worker' = [worker EXCEPT ![w] = next]
    /\ handed' = [handed EXCEPT ![next] = @ + 1]
    /\ next' = NextIndex(next)
    /\ UNCHANGED <<files, raised, results, batch_pc, taskVars, deadmanVars>>

\* compress_image / compress_video returns
TaskReturn(w) ==
    /\ batch_pc = "run"
    /\ worker[w] # 0 /\ raised[w] = ""
    /\ \E o \in NormalOutcomes(kind) :
          results' = [results EXCEPT ![worker[w]] = o]
    /\ worker' = [worker EXCEPT ![w] = 0]
    /\ UNCHANGED <<files, next, raised, handed, batch_pc, taskVars, deadmanVars>>

\* a statement of the try block raises
TaskRaise(w) ==
    /\ batch_pc = "run"
    /\ worker[w] # 0 /\ raised[w] = ""
    /\ \E e \in Raisable : raised' = [raised EXCEPT ![w] = e]
    /\ UNCHANGED <<files, next, worker, results, handed, batch_pc, taskVars,
                   deadmanVars>>

\* the except clause of the task: a caught exception is printed and the
\* task returns; one that is not caught leaves compress_directory
TaskExcept(w) ==
    /\ batch_pc = "run"
    /\ raised[w] # ""
    /\ IF Caught(raised[w])
       THEN /\ results' = [results EXCEPT ![worker[w]] = "error"]
            /\ worker' = [worker EXCEPT ![w] = 0]
            /\ raised' = [raised EXCEPT ![w] = ""]
            /\ UNCHANGED batch_pc
       ELSE /\ batch_pc' = "aborted"
            /\ UNCHANGED <<results, worker, raised>>
    /\ UNCHANGED <<files, next, handed, taskVars, deadmanVars>>

\* every item was handed out and every worker is back
BatchEnd ==
    /\ batch_pc = "run"
    /\ next > Len(files)
    /\ Busy = {}
    /\ batch_pc' = "done"
    /\ UNCHANGED <<files, next, worker, raised, results, handed, taskVars,
                   deadmanVars>>

\* no batch is running
BatchOff ==
    /\ files = <<>>
    /\ next = 1
    /\ worker = <<>>
    /\ raised = <<>>
    /\ results = <<>>
    /\ handed = <<>>
    /\ batch_pc = "off"

-----------------------------------------------------------------------------
(* deadman.py: the check command and trigger_deadman *)

DAY == 86400
MAX_TRIGGERS == 2

(* Bounds of the deadman model *)
MaxDays == 2           \* config["days"] is 1 .. MaxDays; the clock runs MaxDays days
MaxSent == 3           \* e-mails are counted up to MaxSent

\* the instants the clock is read at: each midnight and the second after it
TimePoints == {d * DAY + o : d \in 0 .. MaxDays, o \in {0, 1}}

\* the check started by cron and one started by hand
Procs == {"cron", "manual"}

\* ">=" in place of ">"
Expired_nonStrict(t, last, d) == t - last >= d * DAY

\* line 214: now - last > config["days"] * 86400
Expired(t, last, d) == t - last > d * DAY

\* the counter written back without the increment
Incremented_same(c) == c

\* line 168: config["trigger_count"] = trigger_count + 1
Incremented(c) == c + 1

\* time passes
Tick ==
    /\ \E t \in TimePoints :
          /\ t > now
          /\ now' = t
    /\ UNCHANGED <<last_reset, days, trigger_count, base_dir, cron, sent, check_pc,
                   local_count, taskVars, batchVars>>

\* the owner's reset command: echo $(date +%s) > RESET_FILE
Reset ==
    /\ base_dir
    /\ last_reset # now
    /\ last_reset' = now
    /\ UNCHANGED <<now, days, trigger_count, base_dir, cron, sent, check_pc,
                   local_count, taskVars, batchVars>>

\* cron (while its job is installed) or the owner starts "deadman.py check"
CheckStart(p) ==
    /\ check_pc[p] = "idle"
    /\ p = "cron" => cron
    /\ check_pc' = [check_pc EXCEPT ![p] = "check"]
    /\ UNCHANGED <<now, last_reset, days, trigger_count, base_dir, cron, sent,
                   local_count, taskVars, batchVars>>

\* lines 205-216: read the configuration and the reset file, compare, and
\* enter trigger_deadman or exit; line 151 keeps the counter that was read
CheckDecide(p) ==
    /\ check_pc[p] = "check"
    /\ IF base_dir /\ Expired(now, last_reset, days)
       THEN /\ check_pc' = [check_pc EXCEPT ![p] = "send"]
            /\ local_count' = [local_count EXCEPT ![p] = trigger_count]
       ELSE /\ check_pc' = [check_pc EXCEPT ![p] = "idle"]
            /\ UNCHANGED local_count
    /\ UNCHANGED <<now, last_reset, days, trigger_count, base_dir, cron, sent,
                   taskVars, batchVars>>

\* lines 152-165: list the data directory and run sendEmail.py with
\* check=True; a failure raises and ends the process
Send(p) ==
    /\ check_pc[p] = "send"
    /\ \/ /\ base_dir
          /\ sent < MaxSent
          /\ sent' = sent + 1
          /\ check_pc' = [check_pc EXCEPT ![p] = "write"]
       \/ /\ check_pc' = [check_pc EXCEPT ![p] = "idle"]
          /\ UNCHANGED sent
    /\ UNCHANGED <<now, last_reset, days, trigger_count, base_dir, cron, local_count,
                   taskVars, batchVars>>

\* lines 168-171: store the incremented counter (which raises when the
\* directory is gone) and compare it with the maximum
WriteConfig(p) ==
    /\ check_pc[p] = "write"
    /\ IF base_dir
       THEN /\ trigger_count' = Incremented(local_count[p])
            /\ check_pc' = [check_pc EXCEPT ![p] =
                               IF trigger_count' >= MAX_TRIGGERS THEN "shred" ELSE "idle"]
       ELSE /\ check_pc' = [check_pc EXCEPT ![p] = "idle"]
            /\ UNCHANGED trigger_count
    /\ UNCHANGED <<now, last_reset, days, base_dir, cron, sent, local_count,
                   taskVars, batchVars>>

\* line 173: shred_and_remove_dir(BASE); a failing shred command raises and
\* ends the process with the directory still there
Shred(p) ==
    /\ check_pc[p] = "shred"
    /\ \/ /\ base_dir' = FALSE
          /\ check_pc' = [check_pc EXCEPT ![p] = "remove_cron"]
       \/ /\ base_dir
          /\ check_pc' = [check_pc EXCEPT ![p] = "idle"]
          /\ UNCHANGED base_dir
    /\ UNCHANGED <<now, last_reset, days, trigger_count, cron, sent, local_count,
                   taskVars, batchVars>>

\* line 174: remove_cron_job, which gives up when the crontab cannot be read
RemoveCron(p) ==
    /\ check_pc[p] = "remove_cron"
    /\ \/ cron' = FALSE
       \/ UNCHANGED cron
    /\ check_pc' = [check_pc EXCEPT ![p] = "idle"]
    /\ UNCHANGED <<now, last_reset, days, trigger_count, base_dir, sent, local_count,
                   taskVars, batchVars>>

\* no switch is set up
DeadmanOff ==
    /\ now = 0
    /\ last_reset = 0
    /\ days = 0
    /\ trigger_count = 0
    /\ base_dir = FALSE
    /\ cron = FALSE
    /\ sent = 0
    /\ check_pc = <<>>
    /\ local_count = <<>>

-----------------------------------------------------------------------------

InitVideo ==
    /\ kind = "video"
    /\ path \in VideoPaths
    /\ origSize \in VidSizes
    /\ duration \in Durations

InitImage ==
    /\ kind = "image"
    /\ path \in ImagePaths
    /\ origSize \in ImgSizes
    /\ duration = 0

Init ==
    /\ InitVideo \/ InitImage
    /\ img = NoImg
    /\ fs = InitFs(path, origSize)
    /\ pc = "start"
    /\ outcome = ""
    /\ proc = "none"
    /\ rc = NoRc
    /\ sigint = FALSE
    /\ lastTime = NoTime
    /\ elapsed = 0
    /\ sampled = FALSE
    /\ sample = NoSample
    /\ finalSize = NoSize
    /\ result = NoResult
    /\ BatchOff
    /\ DeadmanOff

Next ==
    \/ VidStart
    \/ EncWrite
    \/ stderr_reader
    \/ EncExit
    \/ LoopPoll
    \/ Sample
    \/ AbortSignal
    \/ AbortWait
    \/ AbortRemove
    \/ VidFinish
    \/ VidReplace
    \/ VidRemoveOriginal
    \/ ImgStart
    \/ ImgOpen
    \/ ImgTempOpen
    \/ ImgTempWrite
    \/ ImgReplace

Spec == Init /\ [][Next]_vars

\* a directory that already holds a file at the destination path of a video
\* task (another video of the same base name that is an .mkv)
InitDirFs(p, s, o) ==
    [q \in TaskPaths(p) |->
        IF q = p THEN File("orig", s) ELSE IF q \in o THEN File("other", 1) ELSE NoFile]

InitDir ==
    /\ InitVideo \/ InitImage
    /\ \E o \in SUBSET ({FinalPath(path)} \ {path}) :
          fs = InitDirFs(path, origSize, IF kind = "video" THEN o ELSE {})
    /\ img = NoImg
    /\ pc = "start"
    /\ outcome = ""
    /\ proc = "none"
    /\ rc = NoRc
    /\ sigint = FALSE
    /\ lastTime = NoTime
    /\ elapsed = 0
    /\ sampled = FALSE
    /\ sample = NoSample
    /\ finalSize = NoSize
    /\ result = NoResult
    /\ BatchOff
    /\ DeadmanOff

SpecDir == InitDir /\ [][Next]_vars

\* no per-file task is modelled in detail
TaskOff ==
    /\ path = <<>>
    /\ origSize = 0
    /\ duration = 0
    /\ img = NoImg
    /\ fs = <<>>
    /\ pc = "off"
    /\ outcome = ""
    /\ proc = "none"
    /\ rc = NoRc
    /\ sigint = FALSE
    /\ lastTime = NoTime
    /\ elapsed = 0
    /\ sampled = FALSE
    /\ sample = NoSample
    /\ finalSize = NoSize
    /\ result = NoResult

\* compress_directory is called on a directory
InitBatch ==
    /\ kind \in {"image", "video"}
    /\ TaskOff
    /\ DeadmanOff
    /\ files = <<>>
    /\ next = 1
    /\ worker = [w \in 1 .. PoolSize(kind) |-> 0]
    /\ raised = [w \in 1 .. PoolSize(kind) |-> ""]
    /\ results = <<>>
    /\ handed = <<>>
    /\ batch_pc = "walk"

NextBatch ==
    \/ Walk
    \/ \E w \in Workers : Dispatch(w)
    \/ \E w \in Workers : TaskReturn(w)
    \/ \E w \in Workers : TaskRaise(w)
    \/ \E w \in Workers : TaskExcept(w)
    \/ BatchEnd

SpecBatch == InitBatch /\ [][NextBatch]_vars

\* the state the setup leaves: lines 451-475
InitDeadman ==
    /\ kind = "deadman"
    /\ TaskOff
    /\ BatchOff
    /\ now = 0
    /\ last_reset = 0
    /\ days \in 1 .. MaxDays
    /\ trigger_count = 0
    /\ base_dir = TRUE
    /\ cron = TRUE
    /\ sent = 0
    /\ check_pc = [p \in Procs |-> "idle"]
    /\ local_count = [p \in Procs |-> 0]

NextDeadman ==
    \/ Tick
    \/ Reset
    \/ \E p \in Procs : CheckStart(p)
    \/ \E p \in Procs : CheckDecide(p)
    \/ \E p \in Procs : Send(p)
    \/ \E p \in Procs : WriteConfig(p)
    \/ \E p \in Procs : Shred(p)
    \/ \E p \in Procs : RemoveCron(p)

SpecDeadman == InitDeadman /\ [][NextDeadman]_vars

-----------------------------------------------------------------------------
(* Properties *)

Done == pc = "done"
OrigIntact == fs[path] = File("orig", origSize)
TaskTemp == IF kind = "video" THEN TempPath(path) ELSE ImgTempPath(path)
\* files the task has produced that are in the directory
Complete == {p \in DOMAIN fs : fs[p].tag = "new"}
Partial == {p \in DOMAIN fs : fs[p].tag = "partial"}
Untouched == fs = InitFs(path, origSize)

\* C1: in every reachable state of a task, the original file is deleted,
\* truncated or overwritten only if a fully written replacement file exists
\* in the directory.
C1_OriginalOrReplacement == OrigIntact \/ Complete # {}

\* C2: once a task has ended, either the original is unchanged and no new
\* file persists, or the original is gone and exactly one new file is in
\* place; never zero files, never two.
C2_OneFileAfterRun ==
    Done =>
        \/ OrigIntact /\ Complete = {} /\ Partial = {}
        \/ fs[path].tag # "orig" /\ Cardinality(Complete) = 1 /\ Partial = {}

WithinTarget(size) ==
    size * TARGET_DEN <= origSize * TARGET_NUM /\ size <= IMG_MAX_SIZE

\* C4: for every image above the minimum size floor, the bytes returned by
\* compress_to_target_size have size <= the target, or were encoded from an
\* image with a side below 200 px (which includes the 2 px floor).
C4_TargetOrFloor ==
    (kind = "image" /\ result # NoResult) =>
        \/ WithinTarget(result.size)
        \/ result.w < 200
        \/ result.h < 200

\* the downscaler was stopped by the dimension floor with the result over target
C4_Witness ==
    /\ kind = "image" /\ result # NoResult /\ ~result.found
    /\ ~WithinTarget(result.size)
    /\ result.w < 200 /\ result.w >= 2 /\ result.h >= 200

\* compress_to_target_size has just returned (img and result do not change
\* afterwards)
Returned == kind = "image" /\ pc = "img_temp_open"

\* the quality levels of the range whose full-size encoding fits the target
Feasible ==
    {q \in QUALITY_LOW .. QUALITY_HIGH : WithinTarget(SaveSize(img, q, img.w, img.h))}
MaxOf(S) == CHOOSE x \in S : \A y \in S : y <= x

HighestFeasibleReturned ==
    IF Feasible = {}
    THEN ~result.found
    ELSE /\ result.found
         /\ result.q = MaxOf(Feasible)
         /\ result.size = SaveSize(img, MaxOf(Feasible), img.w, img.h)
         /\ result.w = img.w /\ result.h = img.h

\* C5 as stated: the quality search returns the encoding at the highest
\* quality of 30..95 whose size is <= the target; if none fits it records no
\* candidate and falls through to the downscaler.
C5_HighestFeasibleQuality ==
    Returned => HighestFeasibleReturned

\* C5 amended: the same, for an encoder whose size does not decrease when
\* the quality increases.
C5_HighestFeasibleQualityMonotonic ==
    (Returned /\ Monotonic(img)) => HighestFeasibleReturned

\* a monotonic encoder whose highest feasible quality lies inside the range
C5_Witness ==
    /\ Returned /\ Monotonic(img)
    /\ Feasible # {}
    /\ MaxOf(Feasible) > QUALITY_LOW /\ MaxOf(Feasible) < QUALITY_HIGH
    /\ result.found

\* estimated_final_size compared with original_size * ratio at the sample
EstimateAbove == sample.bytes * duration * RATIO_DEN > origSize * RATIO_NUM * sample.secs
EstimateBelow == sample.bytes * duration * RATIO_DEN < origSize * RATIO_NUM * sample.secs
AbortPath == {"abort_signal", "abort_wait", "abort_remove"}

C7_NoAbortUnlessGreater ==
    (sample.taken /\ ~EstimateAbove) => (pc \notin AbortPath /\ outcome # "aborted")

\* C7 amended: whenever the estimate is strictly less than original_size *
\* ratio, the monitor does not abort: the encoder is never signalled or
\* killed, the task goes on to the completion handling, and the output of an
\* encoder that exited with code 0 is accepted or rejected by the accept
\* policy (kept only if strictly smaller than original_size * ratio).
C7_NoAbortWhenBelow ==
    (sample.taken /\ EstimateBelow) =>
        /\ pc \notin AbortPath
        /\ ~sigint /\ proc # "killed"
        /\ Done =>
             /\ outcome \in {"replaced", "kept", "failed", "no_output", "error"}
             /\ proc = "exited"
             /\ outcome = "replaced" => finalSize * RATIO_DEN < origSize * RATIO_NUM
             /\ outcome = "kept" => finalSize * RATIO_DEN >= origSize * RATIO_NUM
             /\ (rc = 0 /\ finalSize # NoSize) => outcome \in {"replaced", "kept", "error"}

\* after a favourable sample the encoder completed and its output replaced
\* the original
C7_Witness ==
    /\ Done /\ sample.taken /\ EstimateBelow /\ sample.bytes > 0
    /\ outcome = "replaced"

C9_NoTempAfterFailure ==
    (Done /\ outcome # "replaced") => ~Exists(fs, TaskTemp)

\* C10: a file below the minimum-size floor (1.0 MB for images, 5.0 MB for
\* videos) is skipped: no encoder is started, no temporary file is created
\* and the file is unchanged.
C10_SmallFilesSkipped ==
    ((kind = "image" /\ origSize < 2) \/ (kind = "video" /\ origSize < 5)) =>
        /\ proc = "none"
        /\ Untouched
        /\ result = NoResult
        /\ pc \in {"start", "done"}
        /\ Done => outcome \in {"skipped_small", "skipped_invalid"}

C10_Witness ==
    /\ Done /\ kind = "video" /\ duration > 0 /\ origSize < 5
    /\ outcome = "skipped_small"

-----------------------------------------------------------------------------
(* Properties of compress_directory *)

Terminal == {"replaced", "kept", "aborted", "skipped_small", "skipped_invalid",
             "failed", "no_output", "error"}

\* C11: a failure while one file is processed (an exception, an encoder
\* error, an unreadable file) never aborts the batch: compress_directory is
\* never left by an exception, and when it returns every discovered file has
\* been processed to a terminal outcome.
C11_FailureDoesNotAbortBatch ==
    /\ batch_pc # "aborted"
    /\ batch_pc = "done" => \A i \in DOMAIN files : results[i] \in Terminal

\* a batch that ended with a file that raised, followed by a file that was
\* replaced
C11_Witness ==
    /\ batch_pc = "done"
    /\ \E i, j \in DOMAIN files :
          i < j /\ results[i] = "error" /\ results[j] = "replaced"

-----------------------------------------------------------------------------
(* Properties of the downscaler and of the image task *)

\* the dimensions before the i-th resize of the downscaling loop
DimsBefore(i) == IF i = 1 THEN <<img.w, img.h>> ELSE result.dims[i - 1]

\* C12: for every image of width and height >= 1 the progressive downscaling
\* terminates and returns a candidate, whether or not the target was met:
\* every resize strictly reduces both dimensions, and the loop goes on only
\* while the result does not fit and both sides are at least 200 pixels.
C12_DownscaleTerminates ==
    Returned =>
        /\ result.size >= 1 /\ result.w >= 1 /\ result.h >= 1
        /\ result.w <= img.w /\ result.h <= img.h
        /\ \A i \in DOMAIN result.dims :
              /\ result.dims[i][1] < DimsBefore(i)[1]
              /\ result.dims[i][2] < DimsBefore(i)[2]
              /\ i < Len(result.dims) =>
                    /\ result.dims[i][1] >= MIN_DIM /\ result.dims[i][2] >= MIN_DIM
                    /\ ~WithinTarget(SaveSize(img, result.q, result.dims[i][1],
                                              result.dims[i][2]))
        /\ Len(result.dims) <= Max(img.w, img.h)

\* a downscaling of several steps that ended over the target
C12_Witness ==
    /\ Returned
    /\ Len(result.dims) >= 3
    /\ ~WithinTarget(result.size)

\* C13: a per-file task creates, overwrites or removes only its own files:
\* a file of the directory that existed before the task and is not its
\* source (an existing .mkv with the base name of the source) is never
\* overwritten or removed.
C13_OtherFilesUntouched ==
    [][\A p \in DOMAIN fs : fs[p].tag = "other" => fs'[p] = fs[p]]_vars

\* the original of an image task has been replaced
ImageReplaced == kind = "image" /\ fs[path].tag = "new"

\* C14 as stated: an image candidate replaces the original only if its
\* encoded size is <= the target min(ceiling, original size * ratio): no
\* image written over an original is larger than the target.
C14_ReplacedWithinTarget ==
    ImageReplaced =>
        /\ fs[path].size * TARGET_DEN <= origSize * TARGET_NUM
        /\ fs[path].size <= IMG_MAX_SIZE

\* C14 amended: the image written over the original is the candidate that
\* compress_to_target_size returned, and it is larger than the target only
\* if it was encoded at the dimension floor (a side below 200 px).
C14_ReplacedWithinTargetOrFloor ==
    ImageReplaced =>
        /\ fs[path].size = result.size
        /\ \/ /\ fs[path].size * TARGET_DEN <= origSize * TARGET_NUM
              /\ fs[path].size <= IMG_MAX_SIZE
           \/ result.w < MIN_DIM
           \/ result.h < MIN_DIM

\* an original replaced by a best-effort candidate that is over the target
C14_Witness ==
    /\ ImageReplaced
    /\ outcome = "replaced"
    /\ fs[path].size * TARGET_DEN > origSize * TARGET_NUM
    /\ ~result.found

\* the encoding at the maximum quality fits the target
MaxQualityFits == WithinTarget(SaveSize(img, QUALITY_HIGH, img.w, img.h))

\* the search returned the encoding at the maximum quality
MaxQualityReturned ==
    /\ result.found
    /\ result.q = QUALITY_HIGH
    /\ result.size = SaveSize(img, QUALITY_HIGH, img.w, img.h)
    /\ result.w = img.w /\ result.h = img.h

\* C15 as stated: on an image whose encoding at the maximum quality 95
\* already fits, the quality search (which always runs: there is no shortcut
\* in the code) returns the encoding at quality 95.
C15_MaxQualityWhenItFits ==
    (Returned /\ MaxQualityFits) => MaxQualityReturned

\* C15 amended: the same, for an encoder whose size does not decrease when
\* the quality increases.
C15_MaxQualityWhenItFitsMonotonic ==
    (Returned /\ MaxQualityFits /\ Monotonic(img)) => MaxQualityReturned

\* a monotonic encoder whose size varies with the quality and whose
\* encoding at 95 fits: the search ran its probes and returned quality 95
C15_Witness ==
    /\ Returned /\ MaxQualityFits /\ Monotonic(img)
    /\ img.s1 < img.s3
    /\ result.q = QUALITY_HIGH /\ result.probes >= 2

-----------------------------------------------------------------------------
(* Properties of the dispatch *)

\* the file worker w is processing
FileOf(w) == files[worker[w]]

\* C16: in a batch run every discovered file is handed to exactly one worker
\* exactly once (no file is listed twice, none is handed out twice, and at
\* the end each has been handed out), and at no time do two workers operate
\* on the same original path or on the same temporary path.
C16_OneWorkerPerFile ==
    /\ \A i, j \in DOMAIN files : i # j => files[i] # files[j]
    /\ \A i \in DOMAIN files : handed[i] <= 1
    /\ batch_pc = "done" => \A i \in DOMAIN files : handed[i] = 1
    /\ \A v, w \in Busy :
          v # w => /\ FileOf(v) # FileOf(w)
                   /\ TempOf(kind, FileOf(v)) # TempOf(kind, FileOf(w))
                   /\ TempOf(kind, FileOf(v)) # FileOf(w)

\* the pool at work: every worker is processing a file of its own
C16_Witness ==
    /\ batch_pc = "run"
    /\ Cardinality(Busy) >= 2
    /\ Busy = Workers
    /\ next > Len(files)

-----------------------------------------------------------------------------
(* Properties of the replacement *)

\* the path the new file of the task is renamed to
Destination == IF kind = "video" THEN FinalPath(path) ELSE path

\* the size of the complete output of the encoder
NewSize == IF kind = "video" THEN finalSize ELSE result.size

\* C17: at every instant a file at the path of the original or at the final
\* destination path is complete: it is the old content or the whole new
\* content, never a half-written file.  (The output is written to the
\* temporary path and renamed once the encoder has finished.)
C17_AtomicReplace ==
    \A p \in {path, Destination} :
        \/ fs[p] = NoFile
        \/ fs[p] = File("orig", origSize)
        \/ fs[p] = File("new", NewSize)

\* a write in progress: part of the output is in the temporary file and the
\* original is whole
C17_Witness ==
    /\ fs[TaskTemp].tag = "partial" /\ fs[TaskTemp].size > 0
    /\ fs[path] = File("orig", origSize)
    /\ pc \in {"loop", "img_temp_write", "done"}

\* C18: the number of video transcodes in flight never exceeds the cap of 2
\* (the videos are transcoded one after the other by the main process),
\* while the image tasks go to a pool of as many workers as the machine has
\* processors.
C18_VideoCapImagePool ==
    /\ kind = "video" => Cardinality(Busy) <= 2
    /\ kind = "image" => Workers = 1 .. Cpus

\* a transcode in flight while two more videos of the list wait for it
C18_Witness ==
    /\ kind = "video"
    /\ batch_pc = "run"
    /\ Cardinality(Busy) = 1
    /\ Len(files) - next >= 1

-----------------------------------------------------------------------------
(* Properties of the deadman switch *)

\* process p leaves the comparison of line 214 in this step
Decides(p) == check_pc[p] = "check" /\ check_pc'[p] # "check"

\* C19: a check of an installed switch triggers if and only if
\* now - last_reset > days * 86400; a check made while the timestamp is
\* recent performs no action and changes no state.
C19_TriggerIffExpired ==
    [][\A p \in Procs :
          (Decides(p) /\ base_dir) =>
              /\ (check_pc'[p] = "send") <=> (now - last_reset > days * DAY)
              /\ (now - last_reset <= days * DAY) =>
                    /\ check_pc'[p] = "idle"
                    /\ UNCHANGED <<now, last_reset, days, trigger_count, base_dir,
                                   cron, sent, local_count>>]_vars

\* a check that triggered one second after the period ran out
C19_Witness ==
    \E p \in Procs :
        /\ check_pc[p] = "send"
        /\ now - last_reset = days * DAY + 1
        /\ sent = 0

\* no check process is running
AllIdle == \A p \in Procs : check_pc[p] = "idle"

\* C20: each trigger increments the stored trigger counter by one (between
\* checks the counter equals the number of payloads sent); after the second
\* trigger the directory is shredded and the cron job removed; so the
\* payload is sent at most twice and no later check can trigger again.
C20_AtMostTwoTriggers ==
    /\ sent <= MAX_TRIGGERS
    /\ AllIdle => trigger_count = sent
    /\ (AllIdle /\ trigger_count >= MAX_TRIGGERS) => ~base_dir /\ ~cron

-----------------------------------------------------------------------------
(* Properties of the monitor loop of compress_video *)

\* the sampling point measures the output file in this step
Samples == pc = "sample" /\ pc' # "sample" /\ Exists(fs, TempPath(path))

\* the decision of the sampling point follows the projection
\* bytes / secs * duration computed from the sample
DecidesOnProjection ==
    /\ sample'.taken
    /\ sample'.bytes = fs[TempPath(path)].size
    /\ sample'.secs > 0
    /\ (pc' = "abort_signal") <=>
           (sample'.bytes * duration * RATIO_DEN >= origSize * RATIO_NUM * sample'.secs)

\* C21 as stated: the projected size computed at sampling is
\* (bytes_written / encoded_seconds) * total_duration, where encoded_seconds
\* is the last media time parsed from the progress stream, and the
\* wall-clock elapsed time only when no progress time has been parsed yet.
C21_EstimateFromParsedTime ==
    [][Samples =>
          /\ DecidesOnProjection
          /\ sample'.secs = IF lastTime # NoTime THEN hms_to_seconds(lastTime)
                                                ELSE elapsed]_vars

\* C21 amended: encoded_seconds is the last parsed media time when one was
\* parsed and is positive, and the wall-clock elapsed time when none was
\* parsed or the parsed time is zero.
C21_EstimateFromPositiveParsedTime ==
    [][Samples =>
          /\ DecidesOnProjection
          /\ sample'.secs = IF lastTime # NoTime /\ hms_to_seconds(lastTime) > 0
                            THEN hms_to_seconds(lastTime)
                            ELSE elapsed]_vars

\* a sample that used a parsed media time behind the wall clock
C21_Witness ==
    /\ sample.taken
    /\ sample.secs = 10
    /\ elapsed >= SAMPLE_SECONDS
    /\ sample.bytes > 0

\* the state of the task in the state machine of the monitor
Phase(p, smp, o) ==
    IF p = "start" THEN "NEW"
    ELSE IF p = "loop" /\ ~smp THEN "RUNNING"
    ELSE IF p = "sample" THEN "SAMPLING"
    ELSE IF p = "loop" THEN "CONTINUING"
    ELSE IF p \in AbortPath THEN "ABORTED"
    ELSE IF p = "done" /\ o = "aborted" THEN "ABORTED_EARLY"
    ELSE IF p = "done" /\ o \in {"skipped_invalid", "skipped_small"} THEN "SKIPPED"
    ELSE IF \/ p \in {"finish", "replace", "remove_original"}
            \/ p = "done" /\ o \in {"failed", "no_output", "kept", "replaced", "error"}
    THEN "FINISHED"
    ELSE "OTHER"

\* the transitions of the state machine; the completion (the checks of the
\* exit code and of the output and the replacement) is inside FINISHED
Transitions ==
    {<<"NEW", "RUNNING">>, <<"NEW", "SKIPPED">>,
     <<"RUNNING", "SAMPLING">>,
     <<"SAMPLING", "CONTINUING">>, <<"SAMPLING", "ABORTED">>,
     <<"CONTINUING", "FINISHED">>,
     <<"ABORTED", "ABORTED_EARLY">>}

Step == <<Phase(pc, sampled, outcome), Phase(pc', sampled', outcome')>>

\* C22 as stated: a video task that starts an encoder follows only the
\* transitions RUNNING -> SAMPLING -> {CONTINUING, ABORTED} -> FINISHED |
\* ABORTED_EARLY: it never reaches FINISHED without having passed through
\* SAMPLING and CONTINUING, and it ends in one of the two terminal states.
C22_StateMachine ==
    [][kind = "video" =>
          /\ Step[1] # Step[2] => Step \in Transitions
          /\ (pc' = "done" /\ proc' # "none") =>
                 Step[2] \in {"FINISHED", "ABORTED_EARLY"}]_vars

\* C22 amended: the same with the transition RUNNING -> FINISHED, taken
\* when the encoder exits before the sampling point.
C22_StateMachineWithEarlyExit ==
    [][kind = "video" =>
          /\ Step[1] # Step[2] => Step \in Transitions \cup {<<"RUNNING", "FINISHED">>}
          /\ (pc' = "done" /\ proc' # "none") =>
                 Step[2] \in {"FINISHED", "ABORTED_EARLY"}]_vars

\* a task that went through SAMPLING and CONTINUING and was replaced
C22_Witness ==
    /\ kind = "video"
    /\ sampled /\ sample.taken
    /\ pc = "done" /\ outcome = "replaced"

C24_NoReaderBesideTheLoop ==
    [][(kind = "video" /\ pc = "sample" /\ pc' = "sample") => lastTime' = lastTime]_vars

-----------------------------------------------------------------------------
(* Properties of the quality search *)

\* encodes made by the downscaling loop: one per resize, or the single
\* encode of the unresized image at the 2-pixel floor
DownscaleEncodes == IF result.found THEN 0 ELSE Max(1, Len(result.dims))

\* encodes made by the quality search
SearchProbes == result.probes - DownscaleEncodes

\* C25: the quality binary search terminates for every size function, and
\* over the range 30..95 it makes at most ceil(log2(66 + 1)) = 7 encodes.
C25_AtMostSevenProbes ==
    Returned => SearchProbes >= 1 /\ SearchProbes <= 7

\* a search on a non-monotonic size curve that used all 7 probes
C25_Witness ==
    /\ Returned
    /\ ~Monotonic(img)
    /\ SearchProbes = 7

-----------------------------------------------------------------------------
(* Properties of the error paths *)

\* C26: if writing the temporary file or renaming it fails during a task
\* (the task ends as "error", or as "failed" when it is the encoder that
\* could not write), the task is abandoned with the original unchanged, same
\* content at the same path, and nothing at the destination; the task
\* returns normally, so the batch goes on.
C26_FsFailureKeepsOriginal ==
    (pc = "done" /\ outcome \in {"error", "failed"}) =>
        /\ fs[path] = [tag |-> "orig", size |-> origSize]
        /\ Destination # path => fs[Destination] = NoFile

\* a video task whose rename failed after an accepted transcode
C26_Witness ==
    /\ kind = "video"
    /\ pc = "done" /\ outcome = "error"
    /\ finalSize # NoSize /\ finalSize * RATIO_DEN < origSize * RATIO_NUM
    /\ fs[path] = [tag |-> "orig", size |-> origSize]

\* p is named like a temporary file of a task: name.ext.tmp or name.tmp.mkv
IsTempName(p) ==
    \/ p[Len(p)] = "tmp"
    \/ Len(p) >= 3 /\ p[Len(p) - 1] = "tmp" /\ p[Len(p)] = "mkv"

\* C27: a temporary file left behind by a prior aborted run (name.ext.tmp
\* for images, name.tmp.mkv for videos) is never selected as a source by
\* the discovery of the next run.
C27_StaleTempNotASource ==
    \A i \in DOMAIN files : ~IsTempName(files[i])

\* C28: an image task never leaves a file larger than the original in place
\* of the original: when the result of the search and the downscaling is
\* larger than the original, the original is kept.
C28_NeverLargerThanOriginal ==
    ImageReplaced => fs[path].size <= origSize

\* the qualities the search probes when no probe fits
FailingProbes == {62, 45, 37, 33, 31, 30}

\* C29: whenever the downscaling fallback runs, every downscaled attempt is
\* encoded at the default quality 85: the fallback is entered only when no
\* probe of the quality search fitted, so no quality of the search (in
\* particular not the minimum 30) is used for downscaling.
C29_DownscaleAtDefaultQuality ==
    (Returned /\ ~result.found) =>
        /\ result.q = DEFAULT_QUALITY
        /\ result.size = SaveSize(img, DEFAULT_QUALITY, result.w, result.h)
        /\ \A q \in FailingProbes : ~WithinTarget(SaveSize(img, q, img.w, img.h))

\* a downscaling of two steps at quality 85 of an image whose encoding at
\* quality 30 is smaller
C29_Witness ==
    /\ Returned /\ ~result.found
    /\ Len(result.dims) >= 2
    /\ SaveSize(img, QUALITY_LOW, result.w, result.h) < result.size

\* the loop turns to the sampling point
TurnsToSample == pc # "sample" /\ pc' = "sample"

\* C30: in a video task the projection check is made at most once, and only
\* after at least SAMPLE_SECONDS of wall-clock time at a poll that found the
\* encoder still running; when the encoder has exited by then, or no output
\* file exists at the sampling point, no projection is evaluated and the task
\* cannot end by projection abort, whatever the later output size.
C30_ProjectionOnceAfterSampleSeconds ==
    [][/\ TurnsToSample =>
             /\ proc = "running"
             /\ elapsed' >= SAMPLE_SECONDS
             /\ ~sampled /\ ~sample.taken
       /\ sample' # sample =>
             /\ pc = "sample" /\ ~sample.taken /\ sample'.taken
             /\ Exists(fs, TempPath(path))
       /\ (pc = "sample" /\ pc' # "sample" /\ ~Exists(fs, TempPath(path))) =>
             /\ sampled' /\ ~sample'.taken /\ pc' = "loop"
       /\ (pc # "abort_signal" /\ pc' = "abort_signal") =>
             /\ pc = "sample" /\ sample'.taken
       /\ (sampled /\ ~sample.taken) =>
             /\ pc' \notin {"sample", "abort_signal", "abort_wait", "abort_remove"}
             /\ outcome' # "aborted"
       /\ (outcome' = "aborted") => sample'.taken
      ]_vars

\* no output file existed at the sampling point and the finished output is
\* not smaller than 80 percent of the original: the task ends without abort
C30_Witness ==
    /\ kind = "video" /\ pc = "done"
    /\ sampled /\ ~sample.taken
    /\ outcome # "aborted"
    /\ finalSize # NoSize
    /\ finalSize * RATIO_DEN >= origSize * RATIO_NUM

=============================================================================
